---- MODULE Spec2Model ----
(***************************************************************************)
(* Big Bag Of Words (src/src/lib.rs).                                      *)
(*                                                                         *)
(* A Bbow is a BTreeMap<Cow<str>, usize>.  A string is a sequence of       *)
(* Unicode code points (Rust compares str by UTF-8 bytes, which is code    *)
(* point order).  A Cow<str> is a record [tag, str]; Cow's Eq and Ord look *)
(* only at the string.  The BTreeMap is the sequence of its entries in key *)
(* order, which is the order in which keys() and values() iterate.         *)
(***************************************************************************)
EXTENDS Integers, Sequences, FiniteSets, TLC

\* Bound of the model: calls made plus characters of text passed to them.
MaxInput == 6

(***************************************************************************)
(* Characters.  The code points of the model and their std properties:     *)
(*    32  U+0020 space              White_Space                            *)
(*    45  U+002D hyphen-minus       punctuation                            *)
(*    73  U+0049 I                  Alphabetic, Uppercase, lowercase i     *)
(*   105  U+0069 i                  Alphabetic, Lowercase                  *)
(*   304  U+0130 I with dot above   Alphabetic, Uppercase,                 *)
(*                                  lowercase U+0069 U+0307 (two chars)    *)
(*   453  U+01C5 D with small z with caron (titlecase, Lt): Alphabetic,    *)
(*                                  not Uppercase, lowercase U+01C6        *)
(*   454  U+01C6 dz with caron      Alphabetic, Lowercase                  *)
(*   775  U+0307 combining dot above (Mn): not Alphabetic                  *)
(***************************************************************************)
Chars == {32, 45, 73, 105, 304, 453, 454, 775}

\* The characters the texts passed to extend_from_text are made of.
Alphabet == {32, 45, 73, 105, 304, 453}

is_whitespace(c) == c \in {32}

is_alphabetic(c) == c \in {73, 105, 304, 453, 454}

is_uppercase(c) == c \in {73, 304}

\* char::to_lowercase: the lowercase mapping of one character, a string.
char_to_lowercase(c) ==
    CASE c = 73  -> <<105>>
      [] c = 304 -> <<105, 775>>
      [] c = 453 -> <<454>>
      [] OTHER   -> <<c>>

RECURSIVE to_lowercase(_)
\* str::to_lowercase: the lowercase mappings of the characters, in order.
to_lowercase(s) ==
    IF s = <<>> THEN <<>>
    ELSE char_to_lowercase(Head(s)) \o to_lowercase(Tail(s))

RECURSIVE StrLess(_, _)
\* Ord for str: lexicographic in the code points.
StrLess(a, b) ==
    IF b = <<>> THEN FALSE
    ELSE IF a = <<>> THEN TRUE
    ELSE IF Head(a) # Head(b) THEN Head(a) < Head(b)
    ELSE StrLess(Tail(a), Tail(b))

RECURSIVE SplitFrom_noflush(_, _, _)
\* Mutant: the token that ends the text is not yielded.
SplitFrom_noflush(s, i, cur) ==
    IF i > Len(s) THEN <<>>
    ELSE IF is_whitespace(s[i])
         THEN (IF cur = <<>> THEN <<>> ELSE <<cur>>)
                  \o SplitFrom_noflush(s, i + 1, <<>>)
         ELSE SplitFrom_noflush(s, i + 1, Append(cur, s[i]))

RECURSIVE SplitFrom(_, _, _)
\* The scan of split_whitespace from position i, cur being the token begun.
SplitFrom(s, i, cur) ==
    IF i > Len(s) THEN (IF cur = <<>> THEN <<>> ELSE <<cur>>)
    ELSE IF is_whitespace(s[i])
         THEN (IF cur = <<>> THEN <<>> ELSE <<cur>>) \o SplitFrom(s, i + 1, <<>>)
         ELSE SplitFrom(s, i + 1, Append(cur, s[i]))

\* str::split_whitespace: the maximal runs of non-whitespace characters.
split_whitespace(s) == SplitFrom(s, 1, <<>>)

RECURSIVE TrimStart(_)
TrimStart(w) ==
    IF w = <<>> \/ is_alphabetic(Head(w)) THEN w ELSE TrimStart(Tail(w))

RECURSIVE TrimEnd(_)
TrimEnd(w) ==
    IF w = <<>> \/ is_alphabetic(w[Len(w)]) THEN w
    ELSE TrimEnd(SubSeq(w, 1, Len(w) - 1))

\* word.trim_matches(|c| !c.is_alphabetic())
trim_matches(w) == TrimEnd(TrimStart(w))

\* Mutant: any non-empty trimmed token is a word.
is_word_nonempty(word) == word # <<>>

\* Mutant: the empty string is a word.
is_word_all(word) == \A i \in 1..Len(word) : is_alphabetic(word[i])

is_word(word) ==
    word # <<>> /\ \A i \in 1..Len(word) : is_alphabetic(word[i])

has_uppercase(word) == \E i \in 1..Len(word) : is_uppercase(word[i])

\* The filter_map closure: the trimmed words of target that are words.
RECURSIVE FilterMap(_)
FilterMap(ws) ==
    IF ws = <<>> THEN <<>>
    ELSE LET trimmed == trim_matches(Head(ws))
         IN  (IF is_word(trimmed) THEN <<trimmed>> ELSE <<>>) \o FilterMap(Tail(ws))

\* The key built by the for_each closure: Cow::from(String) is Owned,
\* Cow::from(&str) is Borrowed.
CowOf(word) ==
    IF has_uppercase(word)
    THEN [tag |-> "Owned", str |-> to_lowercase(word)]
    ELSE [tag |-> "Borrowed", str |-> word]

RECURSIVE Entry_unsorted(_, _)
\* Mutant: a vacant entry is inserted after the others (insertion order).
Entry_unsorted(m, word) ==
    IF m = <<>> THEN <<[key |-> word, val |-> 1]>>
    ELSE IF Head(m).key.str = word.str
         THEN <<[key |-> Head(m).key, val |-> Head(m).val + 1]>> \o Tail(m)
    ELSE <<Head(m)>> \o Entry_unsorted(Tail(m), word)

RECURSIVE Entry_noincr(_, _)
\* Mutant: an occupied entry is left as it is.
Entry_noincr(m, word) ==
    IF m = <<>> THEN <<[key |-> word, val |-> 1]>>
    ELSE IF Head(m).key.str = word.str THEN m
    ELSE IF StrLess(word.str, Head(m).key.str)
         THEN <<[key |-> word, val |-> 1]>> \o m
    ELSE <<Head(m)>> \o Entry_noincr(Tail(m), word)

RECURSIVE Entry_insert0(_, _)
\* Mutant: a vacant entry is inserted with count 0.
Entry_insert0(m, word) ==
    IF m = <<>> THEN <<[key |-> word, val |-> 0]>>
    ELSE IF Head(m).key.str = word.str
         THEN <<[key |-> Head(m).key, val |-> Head(m).val + 1]>> \o Tail(m)
    ELSE IF StrLess(word.str, Head(m).key.str)
         THEN <<[key |-> word, val |-> 0]>> \o m
    ELSE <<Head(m)>> \o Entry_insert0(Tail(m), word)

RECURSIVE Entry_replacekey(_, _)
\* Mutant: an occupied entry takes the new key in place of the stored one.
Entry_replacekey(m, word) ==
    IF m = <<>> THEN <<[key |-> word, val |-> 1]>>
    ELSE IF Head(m).key.str = word.str
         THEN <<[key |-> word, val |-> Head(m).val + 1]>> \o Tail(m)
    ELSE IF StrLess(word.str, Head(m).key.str)
         THEN <<[key |-> word, val |-> 1]>> \o m
    ELSE <<Head(m)>> \o Entry_replacekey(Tail(m), word)

RECURSIVE Entry(_, _)
\* self.0.entry(word).and_modify(|count| *count += 1).or_insert(1): an
\* occupied entry keeps its stored key and the new key is dropped; a vacant
\* one is inserted at its place in key order.
Entry(m, word) ==
    IF m = <<>> THEN <<[key |-> word, val |-> 1]>>
    ELSE IF Head(m).key.str = word.str
         THEN <<[key |-> Head(m).key, val |-> Head(m).val + 1]>> \o Tail(m)
    ELSE IF StrLess(word.str, Head(m).key.str)
         THEN <<[key |-> word, val |-> 1]>> \o m
    ELSE <<Head(m)>> \o Entry(Tail(m), word)

RECURSIVE ForEach(_, _)
ForEach(m, words) ==
    IF words = <<>> THEN m
    ELSE ForEach(Entry(m, CowOf(Head(words))), Tail(words))

\* Bbow::extend_from_text as a function of the bag and the text.
extend(self, target) == ForEach(self, FilterMap(split_whitespace(target)))

\* Bbow::match_count: BTreeMap::get compares the keyword with the keys as
\* strings; no normalisation of the keyword.
match_count(self, keyword) ==
    IF \E i \in 1..Len(self) : self[i].key.str = keyword
    THEN self[CHOOSE i \in 1..Len(self) : self[i].key.str = keyword].val
    ELSE 0

\* Bbow::words: the keys in map order, as strings.
words(self) == [i \in 1..Len(self) |-> self[i].key.str]

RECURSIVE Sum(_)
Sum(vals) == IF vals = <<>> THEN 0 ELSE Head(vals) + Sum(Tail(vals))

\* Bbow::count
count(self) == Sum([i \in 1..Len(self) |-> self[i].val])

\* Bbow::len
len(self) == Len(self)

\* Bbow::is_empty
is_empty(self) == Len(self) = 0

\* Bbow::print_info: one line per key, in map order, naming its variant.
print_info(self) ==
    [i \in 1..Len(self) |->
        IF self[i].key.tag = "Borrowed"
        THEN <<"This value is borrowed", self[i].key.str>>
        ELSE <<"This value is owned", self[i].key.str>>]

(***************************************************************************)
(* The state machine: a caller that builds a bag with extend_from_text     *)
(* calls and queries it in between.                                        *)
(***************************************************************************)
VARIABLES
    bbow,   \* the Bbow: entries [key |-> Cow, val |-> count] in key order
    calls,  \* the extend_from_text calls made: [arg, before], the text
            \* passed and the bag it was called on
    query,  \* the last query made since the last of them: name, argument, result
    used    \* calls made plus characters of text passed so far

vars == <<bbow, calls, query, used>>

StringsUpTo(S, n) == UNION {[1..k -> S] : k \in 0..n}

\* The keywords a caller asks for: "", "i", "I", the titlecase letter and
\* its lowercase, "i" with a combining dot, "ii".
Keywords ==
    {<<>>, <<105>>, <<73>>, <<453>>, <<454>>, <<105, 775>>, <<105, 105>>}

NoQuery == [op |-> "none", arg |-> <<>>, ret |-> <<>>]

\* Bbow::new
Init ==
    /\ bbow = <<>>
    /\ calls = <<>>
    /\ query = NoQuery
    /\ used = 0

extend_from_text ==
    \E n \in 0..(MaxInput - used - 1) : \E target \in [1..n -> Alphabet] :
        /\ bbow' = extend(bbow, target)
        /\ calls' = Append(calls, [arg |-> target, before |-> bbow])
        /\ query' = NoQuery
        /\ used' = used + 1 + n

Query(op, arg, ret) ==
    /\ used + 1 <= MaxInput
    /\ query' = [op |-> op, arg |-> arg, ret |-> ret]
    /\ used' = used + 1
    /\ UNCHANGED <<bbow, calls>>

match_count_call ==
    \E keyword \in Keywords :
        Query("match_count", keyword, match_count(bbow, keyword))

words_call == Query("words", <<>>, words(bbow))

count_call == Query("count", <<>>, count(bbow))

len_call == Query("len", <<>>, len(bbow))

is_empty_call == Query("is_empty", <<>>, is_empty(bbow))

print_info_call == Query("print_info", <<>>, print_info(bbow))

Next ==
    \/ extend_from_text
    \/ match_count_call
    \/ words_call
    \/ count_call
    \/ len_call
    \/ is_empty_call
    \/ print_info_call

Spec == Init /\ [][Next]_vars

(***************************************************************************)
(* The vocabulary of the properties, stated on the positions of a text     *)
(* rather than by the code's iterators.  "Letter" is read as the code      *)
(* reads it: char::is_alphabetic.                                          *)
(***************************************************************************)

\* The maximal whitespace-delimited tokens of s, as <<first, last>> positions.
Min(S) == CHOOSE x \in S : \A y \in S : x <= y

Max(S) == CHOOSE x \in S : \A y \in S : y <= x

\* A token starts at a non-whitespace character that begins the text or
\* follows whitespace, and ends before the next whitespace or with the text.
TokenStarts(s) ==
    {i \in 1..Len(s) :
        ~is_whitespace(s[i]) /\ (i = 1 \/ is_whitespace(s[i - 1]))}

TokenEnd(s, i) ==
    Min({j \in i..Len(s) : j = Len(s) \/ is_whitespace(s[j + 1])})

TokenSpans(s) == {<<i, TokenEnd(s, i)>> : i \in TokenStarts(s)}

LetterPositions(s, sp) == {k \in sp[1]..sp[2] : is_alphabetic(s[k])}

\* The token has a letter, and between its first and last letter only letters.
Accepted(s, sp) ==
    /\ LetterPositions(s, sp) # {}
    /\ \A k \in Min(LetterPositions(s, sp))..Max(LetterPositions(s, sp)) :
           is_alphabetic(s[k])

AcceptedSpans(s) == {sp \in TokenSpans(s) : Accepted(s, sp)}

\* The token without its leading and trailing non-letters.
Trimmed(s, sp) ==
    SubSeq(s, Min(LetterPositions(s, sp)), Max(LetterPositions(s, sp)))

\* A token with a non-letter between two of its letters.
InternalNonLetter(s, sp) ==
    LetterPositions(s, sp) # {} /\ ~Accepted(s, sp)

Keys(self) == {self[i].key.str : i \in 1..Len(self)}

\* The last extend_from_text call and the one before it.
Extended == calls # <<>>

Call == calls[Len(calls)]

Last == calls[Len(calls) - 1]

\* C1: after one extend_from_text on an empty bag, count() is the number of
\* whitespace-delimited tokens of the text that, trimmed of leading and
\* trailing non-letters, are non-empty and all letters; a token with an
\* internal non-letter adds nothing.
C1_CountIsAcceptedTokens ==
    (Extended /\ Call.before = <<>>) =>
        count(bbow) = Cardinality(AcceptedSpans(Call.arg))

\* A text with an accepted token and a token with an internal non-letter
\* ("i i-i") was ingested into the empty bag.
C1_Witness ==
    /\ Extended /\ Call.before = <<>>
    /\ count(bbow) = 1
    /\ \E sp \in TokenSpans(Call.arg) : InternalNonLetter(Call.arg, sp)

\* C7: every stored count is at least 1; an extend_from_text call keeps
\* every key with a count not below its old one, and the counts rise in
\* total by one per accepted token: a text with one accepted token raises
\* exactly one key by exactly 1.
C7_CountsOnlyGrow ==
    /\ \A i \in 1..Len(bbow) : bbow[i].val >= 1
    /\ Extended =>
        /\ \A k \in Keys(Call.before) :
              /\ k \in Keys(bbow)
              /\ match_count(bbow, k) >= match_count(Call.before, k)
        /\ LET accepted == Cardinality(AcceptedSpans(Call.arg))
           IN  /\ count(bbow) = count(Call.before) + accepted
               /\ accepted = 1 =>
                     \E k \in Keys(bbow) :
                        /\ match_count(bbow, k) = match_count(Call.before, k) + 1
                        /\ \A j \in Keys(bbow) \ {k} :
                              match_count(bbow, j) = match_count(Call.before, j)

\* A call on a non-empty bag raised the count of a key it held and added
\* a new key.
C7_Witness ==
    /\ Extended
    /\ \E k \in Keys(Call.before) :
          match_count(bbow, k) > match_count(Call.before, k)
    /\ Keys(bbow) # Keys(Call.before)

\* C8: len() <= count(), with equality exactly when every stored count is
\* 1; is_empty() exactly when len() = 0, exactly when count() = 0.
C8_LenCountEmpty ==
    /\ len(bbow) <= count(bbow)
    /\ (len(bbow) = count(bbow)) <=> (\A i \in 1..Len(bbow) : bbow[i].val = 1)
    /\ is_empty(bbow) <=> (len(bbow) = 0)
    /\ (len(bbow) = 0) <=> (count(bbow) = 0)
    /\ query.op = "is_empty" => (query.ret <=> (count(bbow) = 0))

\* is_empty() was asked of a bag that holds a word counted twice.
C8_Witness ==
    /\ query.op = "is_empty" /\ query.ret = FALSE
    /\ len(bbow) < count(bbow)

\* A bag of two words counted once each, and one of two words of which one
\* is counted twice.
C8_WitnessEqual == len(bbow) = 2 /\ count(bbow) = 2

C8_WitnessLess == len(bbow) = 2 /\ count(bbow) = 3

\* C9: an extend_from_text call whose text has no accepted token (empty,
\* whitespace, punctuation, tokens with internal non-letters) leaves the
\* keys, the counts and the stored keys' variants as they were.
C9_NoWordNoChange ==
    (Extended /\ AcceptedSpans(Call.arg) = {}) => bbow = Call.before

\* A text with a token that has an internal non-letter, and one that is
\* punctuation only, was passed to a non-empty bag.
C9_Witness ==
    /\ Extended /\ Call.before # <<>>
    /\ AcceptedSpans(Call.arg) = {}
    /\ \E sp \in TokenSpans(Call.arg) : InternalNonLetter(Call.arg, sp)

\* The same on the empty bag, with punctuation only.
C9_WitnessEmpty ==
    /\ Extended /\ Call.before = <<>> /\ is_empty(bbow)
    /\ Call.arg # <<>> /\ \A k \in 1..Len(Call.arg) : ~is_alphabetic(Call.arg[k])

\* The strings of up to two characters, normalized or not.
Strings2 == StringsUpTo(Chars, 2)

\* char::is_lowercase, by which the properties name the lowercase letters.
is_lowercase(c) == c \in {105, 454}

\* The lowercase words: non-empty strings of lowercase letters.
LowercaseWords ==
    StringsUpTo({c \in Chars : is_alphabetic(c) /\ is_lowercase(c)}, MaxInput - 1)
        \ {<<>>}

\* The accepted tokens of text s whose lowercased form is w.
TokensLowercasedTo(s, w) ==
    {sp \in AcceptedSpans(s) : to_lowercase(Trimmed(s, sp)) = w}

RECURSIVE SumOver(_, _)
\* The sum of f[i] over the indices in S.
SumOver(f, S) ==
    IF S = {} THEN 0
    ELSE LET i == CHOOSE x \in S : TRUE IN f[i] + SumOver(f, S \ {i})

\* The accepted tokens, over all the texts ingested, whose lowercased form is w.
OccurrencesLowercased(w) ==
    SumOver([i \in 1..Len(calls) |->
                Cardinality(TokensLowercasedTo(calls[i].arg, w))],
            1..Len(calls))

\* C2 (as stated): after any sequence of extend_from_text calls on an empty
\* bag, match_count(w) of every lowercase word w is the number of accepted
\* tokens, over all the texts, whose lowercased form is w.
C2_MatchCountIsLowercasedOccurrences ==
    \A w \in LowercaseWords : match_count(bbow, w) = OccurrencesLowercased(w)

\* A keyword in normalized form: non-empty, all letters, none uppercase.
Normalized(k) == is_word(k) /\ ~has_uppercase(k)

\* C3 (as stated): match_count(k) is 0 for every keyword k that is not in
\* normalized form (empty, with an uppercase letter or with a non-letter)
\* and for every keyword that is no key of the bag.
C3_UnnormalizedKeywordCountsZero ==
    /\ \A k \in Strings2 :
          (~Normalized(k) \/ k \notin Keys(bbow)) => match_count(bbow, k) = 0
    /\ (query.op = "match_count" /\ ~Normalized(query.arg)) => query.ret = 0

\* C4 (as stated): every key of the bag is non-empty, all letters, and has
\* no uppercase letter, also when it was made by lowercasing a word.
C4_KeysAreNormalizedWords ==
    \A k \in Keys(bbow) : is_word(k) /\ ~has_uppercase(k)

\* The word-to-count mapping of a bag.
Mapping(self) == [i \in 1..Len(self) |-> <<self[i].key.str, self[i].val>>]

\* C5: text A and then text B passed in two chained extend_from_text calls
\* give the word-to-count mapping that one call on A, a space and B gives
\* from the same bag.
C5_ChainedEqualsJoined ==
    Len(calls) >= 2 =>
        Mapping(bbow) =
            Mapping(extend(Last.before, Last.arg \o <<32>> \o Call.arg))

\* Two chained calls on a non-empty bag, each with an accepted token, the
\* second one raising a key the first one raised.
C5_Witness ==
    /\ Len(calls) >= 2
    /\ Last.before # <<>>
    /\ AcceptedSpans(Last.arg) # {} /\ AcceptedSpans(Call.arg) # {}
    /\ \E k \in Keys(bbow) :
          /\ match_count(Call.before, k) > match_count(Last.before, k)
          /\ match_count(bbow, k) > match_count(Call.before, k)

\* a < b in the lexicographic order of the code points.
LexLess(a, b) ==
    \E k \in 1..Len(b) :
        /\ k - 1 <= Len(a)
        /\ \A j \in 1..(k - 1) : a[j] = b[j]
        /\ k > Len(a) \/ a[k] < b[k]

\* w lists the keys of self, each once, in strictly increasing order.
SortedListingOf(w, self) ==
    /\ {w[i] : i \in 1..Len(w)} = Keys(self)
    /\ Len(w) = Len(self)
    /\ \A i, j \in 1..Len(w) : i < j => LexLess(w[i], w[j])

\* C6: words() yields each key once, in strictly increasing lexicographic
\* order, whatever the order of ingestion; a words() call leaves the mapping
\* as it was and a second call yields the same sequence.
C6_WordsSortedAndReadOnly ==
    /\ [](/\ SortedListingOf(words(bbow), bbow)
          /\ query.op = "words" => SortedListingOf(query.ret, bbow))
    /\ [][query'.op = "words" =>
            /\ bbow' = bbow
            /\ query.op = "words" => query'.ret = query.ret]_vars

\* words() was asked of a bag whose two keys were ingested, by one call on
\* the empty bag, in decreasing order.
C6_Witness ==
    /\ query.op = "words" /\ Len(query.ret) = 2
    /\ Len(calls) = 1
    /\ \E sp, sq \in AcceptedSpans(Call.arg) :
          /\ sp[2] < sq[1]
          /\ LexLess(Trimmed(Call.arg, sq), Trimmed(Call.arg, sp))
          /\ ~has_uppercase(Trimmed(Call.arg, sp))
          /\ ~has_uppercase(Trimmed(Call.arg, sq))

\* The stored key records of a bag.
KeyRecords(self) == {self[i].key : i \in 1..Len(self)}

\* The key an accepted word is looked up by.
NormalForm(w) == IF has_uppercase(w) THEN to_lowercase(w) ELSE w

\* The first of the accepted tokens acc of text s that is looked up by key k.
FirstSpanFor(s, acc, k) ==
    LET S == {sp \in acc : NormalForm(Trimmed(s, sp)) = k}
    IN  CHOOSE sp \in S : \A sq \in S : sp[1] <= sq[1]

\* C10: a key's variant is decided by the token that inserts it, owned
\* exactly when that token has an uppercase letter, borrowed otherwise;
\* later occurrences of the word, lowercase or not, leave the stored key and
\* its variant as they were.
C10_VariantFixedAtInsertion ==
    Extended =>
        LET acc == AcceptedSpans(Call.arg)
            first(k) == Trimmed(Call.arg, FirstSpanFor(Call.arg, acc, k))
        IN  /\ KeyRecords(Call.before) \subseteq KeyRecords(bbow)
            /\ \A r \in KeyRecords(bbow) \ KeyRecords(Call.before) :
                  /\ \E sp \in acc : NormalForm(Trimmed(Call.arg, sp)) = r.str
                  /\ (r.tag = "Owned") <=> has_uppercase(first(r.str))
                  /\ (r.tag = "Borrowed") <=> ~has_uppercase(first(r.str))

\* A key held as a borrow met a later occurrence with an uppercase letter.
C10_Witness ==
    /\ Extended
    /\ \E r \in KeyRecords(Call.before) :
          /\ r.tag = "Borrowed"
          /\ \E sp \in AcceptedSpans(Call.arg) :
                /\ has_uppercase(Trimmed(Call.arg, sp))
                /\ NormalForm(Trimmed(Call.arg, sp)) = r.str

\* A key held as an owned copy met a later lowercase occurrence.
C10_WitnessOwned ==
    /\ Extended
    /\ \E r \in KeyRecords(Call.before) :
          /\ r.tag = "Owned"
          /\ \E sp \in AcceptedSpans(Call.arg) : Trimmed(Call.arg, sp) = r.str

====
